---- MODULE Spec2Model ----
(***************************************************************************)
(* Model of keithley6517b-mqtt: the MQTT client (command dispatcher and    *)
(* continuous-measurement poller), the serialized command queue with its   *)
(* single worker thread, and the instrument connection guard.              *)
(* The older non-threaded logic class (keithley6517b-mqtt) is modelled in   *)
(* the variable legacy, with a specification of its own.                   *)
(*                                                                         *)
(* Threads: "bus" is the paho network-loop thread that runs on_connect,    *)
(* on_message and on_disconnect; "main" is the thread that runs main(),    *)
(* the poller and stop(); the worker is WorkerThread.run.                  *)
(*                                                                         *)
(* The instrument is the environment: each attempt to open it and each     *)
(* access to it either works or fails with VisaIOError.                    *)
(*                                                                         *)
(* Timing is abstracted: a bounded wait (future.result(timeout=10)) may    *)
(* expire whenever the future is still pending, and the measurement timer  *)
(* is a saturating count of elapsed time-units.  TimeoutError raised by    *)
(* future.result is taken to be the builtin one (Python >= 3.11), so the   *)
(* except clause of the submit wrapper catches it.                         *)
(***************************************************************************)
EXTENDS Integers, Sequences, FiniteSets, Bags, TLC

\* ------------------------------------------------------------------ bounds
MaxMsgs == 2       \* inbound bus messages delivered in a behaviour
MaxPolls == 1      \* poller-synthesised reads in a behaviour
MaxOps == 4        \* operations submitted to the queue in a behaviour
MaxSessions == 2   \* calls of main() by the reconnect loop
MaxCalls == 3      \* calls of the non-threaded logic object in a behaviour

\* ------------------------------------------------------- program constants
CURRENT_MEASUREMENT_INTERVAL == 1

\* ------------------------------------------------------------ JSON values
JV(t, v) == [t |-> t, v |-> v]
PyNone == JV("null", "")
Absent == JV("absent", "")
PyTrue == JV("bool", "true")
PyFalse == JV("bool", "false")
PyBool(b) == IF b THEN PyTrue ELSE PyFalse
StrNone == JV("str", "None")
Str5 == JV("str", "5.0")
StrBanana == JV("str", "banana")
Amps == JV("num", "amps")
StrDone == JV("str", "done")

\* strings that float() parses
FloatStrings == {"5.0"}

\* float(s): "ok" when s converts, otherwise the exception raised
py_float(s) ==
    CASE s.t = "num" -> "ok"
      [] s.t = "bool" -> "ok"
      [] s.t = "str" -> IF s.v \in FloatStrings THEN "ok" ELSE "ValueError"
      [] OTHER -> "TypeError"

\* is_number(s): "True", "False", or the exception that escapes it
is_number(s) ==
    CASE py_float(s) = "ok" -> "True"
      [] py_float(s) = "ValueError" -> "False"
      [] OTHER -> py_float(s)

\* bool(x) of a JSON value
py_bool(x) ==
    CASE x.t = "bool" -> x.v = "true"
      [] x.t = "str" -> x.v # ""
      [] x.t = "num" -> x.v # "0"
      [] OTHER -> FALSE

VARIABLES
    queue,            \* Keithley6517BLogic.queue: ids of pending operations
    ops,              \* every submitted operation with its Future
    startOrder,       \* history: ids in the order the worker took them
    executing,        \* ids of operations being executed right now
    wpc,              \* WorkerThread position
    wcur,             \* id of the operation the worker holds (0: none)
    stopEvent,        \* WorkerThread._stop_event
    isConnected,      \* Keithley6517BLogic._is_connected
    device,           \* Keithley6517BLogic.device and the instrument registers
    connectAttempts,  \* history: calls of try_connect
    onConnectedCalls, \* history: calls of the on_connected callback
    flag,             \* Keithley6517BMQTTClient.measure_continously
    userStop,         \* Keithley6517BMQTTClient.user_stop_event
    bus,              \* self.client, self.disconnected, client.is_connected()
    h,                \* handler activation of each caller thread
    mpc,              \* main thread position
    elapsed,          \* time() - self.last_time, saturating
    published,        \* bag of messages published on the bus
    finished,         \* history: handler activations that have ended
    counts,           \* messages, polls and sessions so far
    legacy            \* the Keithley6517BLogic object of the non-threaded variant

vars == <<queue, ops, startOrder, executing, wpc, wcur, stopEvent, isConnected,
          device, connectAttempts, onConnectedCalls, flag, userStop,
          bus, h, mpc, elapsed, published, finished, counts, legacy>>

wvars == <<startOrder, wpc, wcur, stopEvent>>
cvars == <<isConnected, device, connectAttempts, onConnectedCalls, legacy>>

Threads == {"bus", "main"}

Registers == {"voltage_range", "current_range", "source_enabled",
              "source_voltage", "source_voltage_range"}

OpIds == 1..Len(ops)

Last(s) == s[Len(s)]

\* ------------------------------------------------------------- publishing
Pub(topic, cmd, value, sender) ==
    [topic |-> topic, cmd |-> cmd, value |-> value, sender |-> sender]

\* the guard every publish_* method and keithley_connected share
CanPublish == bus.client /\ bus.link = "up"

\* publish_response(command, value, sender_payload)
publish_response(cmd, value, sender) ==
    IF CanPublish
    THEN published (+) SetToBag({Pub("response", cmd, value, sender)})
    ELSE published

\* publish_error(command, error_message): the message carries the value
publish_error(cmd, value) ==
    IF CanPublish
    THEN published (+) SetToBag({Pub("error/command", cmd, value, Absent)})
    ELSE published

\* publish_connection_error(command, error_message)
publish_connection_error(cmd, fault) ==
    IF CanPublish
    THEN published (+) SetToBag({Pub("error/disconnected", cmd, JV("str", fault), Absent)})
    ELSE published

\* keithley_connected(): the retained "1" on <base>/connected/<device>
keithley_connected ==
    IF CanPublish
    THEN published (+) SetToBag({Pub("connected", "", JV("str", "1"), Absent)})
    ELSE published

\* publish_measure_continously(payload, measure_continously)
publish_measure_continously(payload, measure_continously) ==
    publish_response("measure_continously", measure_continously, payload)

\* ------------------------------------------------------ the command queue
NewOp(name, arg, by) ==
    [name |-> name, arg |-> arg, by |-> by, status |-> "queued", fault |-> "none",
     takes |-> 0, sets |-> 0, fstate |-> "pending", fvalue |-> PyNone,
     connTried |-> FALSE, preConn |-> FALSE, touched |-> 0]

\* a mutant of Submit: the method runs in the caller's thread, unqueued
SubmitDirect(name, arg, by) ==
    /\ Len(ops) < MaxOps
    /\ ops' = Append(ops, [NewOp(name, arg, by) EXCEPT !.status = "running", !.takes = 1])
    /\ queue' = queue
    /\ executing' = executing \cup {Len(ops) + 1}

\* push_method_to_queue_decorator.wrapper up to queue.put: a new Future and
\* the tuple (method, self, args, kwargs, future) appended to the queue
Submit(name, arg, by) ==
    /\ Len(ops) < MaxOps
    /\ ops' = Append(ops, NewOp(name, arg, by))
    /\ queue' = Append(queue, Len(ops) + 1)
    /\ executing' = executing

\* a mutant of QueueGet: the newest item is taken first
QueueGetLifo(q) ==
    [item |-> Last(q), rest |-> SubSeq(q, 1, Len(q) - 1)]

\* a mutant of QueueGet: the head is read but stays in the queue
QueueGetPeek(q) ==
    [item |-> Head(q), rest |-> q]

\* queue.get(): the head of the FIFO, removed
QueueGet(q) ==
    [item |-> Head(q), rest |-> Tail(q)]

\* ------------------------------------------------- the connection guard
\* a mutant of NeedsConnect: the operation goes to its body unchecked
NeedsConnectNever(conn) ==
    FALSE

\* a mutant of NeedsConnect: connect on every check
NeedsConnectAlways(conn) ==
    TRUE

\* check_connection: connect only when is_connected() is false
NeedsConnect(conn) ==
    ~conn

\* a mutant of AfterIOFault: the fault leaves the connected state as it was
AfterIOFaultKeep(conn) ==
    conn

\* check_connection_decorator, except VisaIOError: self._is_connected.clear()
AfterIOFault(conn) ==
    FALSE

\* WorkerThread.run, while not self._stop_event.is_set(): the worker leaves
\* the loop, or blocks in queue.get(timeout=1)
LoopTest(stop) ==
    IF stop THEN "exited" ELSE "get"

\* a mutant of OnWorkerException: the exception ends the run loop
OnWorkerExceptionExit(stop) ==
    "exited"

\* WorkerThread.run, except Exception: log and go round the loop again
OnWorkerException(stop) ==
    LoopTest(stop)

\* what the wrapped method does to the instrument registers when its I/O works
OpEffect(name, arg, regs) ==
    CASE name = "set_current_range" -> [regs EXCEPT !["current_range"] = arg]
      [] name = "set_voltage_range" -> [regs EXCEPT !["voltage_range"] = arg]
      [] name = "set_source_voltage" -> [regs EXCEPT !["source_voltage"] = arg]
      [] name = "set_source_voltage_range" -> [regs EXCEPT !["source_voltage_range"] = arg]
      [] name = "enable_source" -> [regs EXCEPT !["source_enabled"] = PyTrue]
      [] name = "disable_source" -> [regs EXCEPT !["source_enabled"] = PyFalse]
      [] OTHER -> regs

\* what the wrapped method returns when its I/O works
OpResult(name, regs) ==
    CASE name = "current" -> Amps
      [] name \in Registers -> regs[name]
      [] OTHER -> PyNone

\* ------------------------------------------------------- the worker thread
\* queue.get(timeout=1) on an empty queue: queue.Empty, logged by the
\* except Exception clause, and the loop test again; a worker that finds no
\* stop signal is back in queue.get
WorkerEmpty ==
    /\ wpc = "get"
    /\ queue = <<>>
    /\ stopEvent
    /\ wpc' = OnWorkerException(stopEvent)
    /\ UNCHANGED <<queue, ops, startOrder, executing, wcur, stopEvent, cvars,
                   flag, userStop, bus, h, mpc, elapsed, published, finished, counts>>

\* queue.get(timeout=1) returns the head; method(that, ...) is entered
WorkerTake ==
    /\ wpc = "get"
    /\ queue # <<>>
    /\ LET g == QueueGet(queue) IN
        /\ queue' = g.rest
        /\ wcur' = g.item
        /\ ops' = [ops EXCEPT ![g.item].status = "running",
                              ![g.item].takes = @ + 1,
                              ![g.item].preConn = isConnected]
        /\ executing' = executing \cup {g.item}
        /\ startOrder' = Append(startOrder, g.item)
    /\ wpc' = "check"
    /\ UNCHANGED <<stopEvent, cvars, flag, userStop, bus, h, mpc,
                   elapsed, published, finished, counts>>

\* the method returned: future.set_result(value); a method that raises leaves
\* the Future untouched (see the raising branches of WorkerCheck, WorkerBody)
WorkerReturned(value, touches) ==
    /\ ops' = [ops EXCEPT ![wcur].status = "returned",
                          ![wcur].fstate = "result",
                          ![wcur].fvalue = value,
                          ![wcur].sets = @ + 1,
                          ![wcur].touched = @ + touches]
    /\ executing' = executing \ {wcur}
    /\ wcur' = 0
    /\ wpc' = LoopTest(stopEvent)

\* check_connection_decorator.wrapper: self.check_connection(), and
\* try_connect when not connected
WorkerCheck ==
    /\ wpc = "check"
    /\ IF ~NeedsConnect(isConnected)
       THEN /\ wpc' = "body"
            /\ UNCHANGED <<ops, executing, wcur, cvars, published>>
       ELSE /\ connectAttempts' = connectAttempts + 1
            /\ \E reachable \in BOOLEAN :
               IF reachable
               THEN /\ device' = [device EXCEPT !.handle = TRUE]
                    /\ isConnected' = TRUE
                    /\ onConnectedCalls' = onConnectedCalls + 1
                    /\ published' = keithley_connected
                    /\ ops' = [ops EXCEPT ![wcur].connTried = TRUE]
                    /\ wpc' = "body"
                    /\ UNCHANGED <<executing, wcur>>
               ELSE /\ isConnected' = FALSE
                    /\ ops' = [ops EXCEPT ![wcur].status = "raised",
                                          ![wcur].fault = "conn",
                                          ![wcur].connTried = TRUE]
                    /\ executing' = executing \ {wcur}
                    /\ wcur' = 0
                    /\ wpc' = OnWorkerException(stopEvent)
                    /\ UNCHANGED <<device, onConnectedCalls, published>>
    /\ UNCHANGED <<queue, startOrder, stopEvent, flag, userStop, bus,
                   h, mpc, elapsed, finished, counts, legacy>>

\* a mutant of WaitExpires: future.result() with no timeout
WaitUnbounded(op) == FALSE

\* push_method_to_queue_decorator.wrapper: future.result(timeout=10) raises
\* TimeoutError once the bound has passed with the Future still pending
WaitExpires(op) == op.fstate = "pending"

\* the body of the source_enabled setter: self.enable_source() or
\* self.disable_source(), each of which submits to the queue
WorkerNestedSubmit ==
    /\ wpc = "body"
    /\ ops[wcur].name = "set_source_enabled"
    /\ Submit(IF py_bool(ops[wcur].arg) THEN "enable_source" ELSE "disable_source",
              Absent, [src |-> "worker", n |-> wcur])
    /\ wpc' = "nested"
    /\ UNCHANGED <<startOrder, wcur, stopEvent, cvars, flag, userStop,
                   bus, h, mpc, elapsed, published, finished, counts>>

\* the worker's own wait on the nested Future expires (only the worker could
\* fulfil it); the setter returns None
WorkerNestedTimeout ==
    /\ wpc = "nested"
    /\ \E i \in OpIds : /\ ops[i].by = [src |-> "worker", n |-> wcur]
                        /\ WaitExpires(ops[i])
    /\ WorkerReturned(PyNone, 0)
    /\ UNCHANGED <<queue, startOrder, stopEvent, cvars, flag, userStop,
                   bus, h, mpc, elapsed, published, finished, counts>>

\* the body of every other operation: one access to self.device
WorkerBody ==
    /\ wpc = "body"
    /\ ops[wcur].name # "set_source_enabled"
    /\ \E reachable \in BOOLEAN :
       IF reachable
       THEN /\ device' = [device EXCEPT !.regs = OpEffect(ops[wcur].name, ops[wcur].arg, @)]
            /\ WorkerReturned(OpResult(ops[wcur].name, device.regs), 1)
            /\ UNCHANGED isConnected
       ELSE /\ isConnected' = AfterIOFault(isConnected)
            /\ ops' = [ops EXCEPT ![wcur].status = "raised",
                                  ![wcur].fault = "io",
                                  ![wcur].touched = @ + 1]
            /\ executing' = executing \ {wcur}
            /\ wcur' = 0
            /\ wpc' = OnWorkerException(stopEvent)
            /\ UNCHANGED device
    /\ UNCHANGED <<queue, startOrder, stopEvent, connectAttempts, onConnectedCalls,
                   flag, userStop, bus, h, mpc, elapsed, published, finished, counts,
                   legacy>>

Worker ==
    \/ WorkerEmpty
    \/ WorkerTake
    \/ WorkerCheck
    \/ WorkerBody

\* the source_enabled setter, which submits from inside the worker
WorkerNested ==
    \/ WorkerNestedSubmit
    \/ WorkerNestedTimeout

\* ------------------------------------------------------------- handlers
Commands == {"apply_voltage", "auto_range_source", "current", "current_range",
             "disable_source", "enable_source", "measure_continously",
             "measure_current", "reset", "shutdown", "source_enabled",
             "source_voltage", "source_voltage_range"}

\* a request payload: n tells requests apart, value is payload["value"] (or
\* Absent), keys tells whether nplc, current and auto_range are all present
Payload(src, n, value, keys) ==
    [src |-> src, n |-> n, value |-> value, keys |-> keys]

NoPayload == Payload("", 0, Absent, FALSE)

Tag(p) == [src |-> p.src, n |-> p.n]

Idle ==
    [pc |-> "idle", cmd |-> "", payload |-> NoPayload, saved |-> FALSE,
     opid |-> 0, result |-> PyNone, up |-> FALSE, faulted |-> FALSE]

\* handle_apply_voltage: voltage = "None", replaced by payload["value"]
Voltage(payload) ==
    IF payload.value = Absent THEN StrNone ELSE payload.value

\* the operation a handler submits before its read-back ("" when none)
SetOp(cmd, payload) ==
    CASE cmd = "apply_voltage" -> "apply_voltage"
      [] cmd = "auto_range_source" -> "auto_range_source"
      [] cmd = "disable_source" -> "disable_source"
      [] cmd = "enable_source" -> "enable_source"
      [] cmd = "reset" -> "reset"
      [] cmd = "shutdown" -> "shutdown"
      [] cmd = "measure_current" -> IF payload.keys THEN "measure_current" ELSE ""
      [] cmd = "current_range" -> IF payload.value # Absent THEN "set_current_range" ELSE ""
      [] cmd = "source_enabled" -> IF payload.value # Absent THEN "set_source_enabled" ELSE ""
      [] cmd = "source_voltage" -> IF payload.value # Absent THEN "set_source_voltage" ELSE ""
      [] cmd = "source_voltage_range" ->
             IF payload.value # Absent THEN "set_source_voltage_range" ELSE ""
      [] OTHER -> ""

\* the argument of that operation
SetArg(cmd, payload) ==
    CASE cmd = "apply_voltage" -> Voltage(payload)
      [] cmd \in {"current_range", "source_enabled", "source_voltage",
                  "source_voltage_range"} -> payload.value
      [] OTHER -> Absent

\* the read-back a handler submits ("" when none)
GetOp(cmd) ==
    CASE cmd = "auto_range_source" -> "voltage_range"
      [] cmd = "current" -> "current"
      [] cmd = "current_range" -> "current_range"
      [] cmd = "disable_source" -> "source_enabled"
      [] cmd = "enable_source" -> "source_enabled"
      [] cmd = "measure_current" -> "current_range"
      [] cmd = "shutdown" -> "source_enabled"
      [] cmd = "source_enabled" -> "source_enabled"
      [] cmd = "source_voltage" -> "source_voltage"
      [] cmd = "source_voltage_range" -> "source_voltage_range"
      [] OTHER -> ""

\* the command named in the handler's publish_response
RespName(cmd) ==
    CASE cmd = "apply_voltage" -> "apply_voltage"
      [] cmd = "reset" -> "reset"
      [] OTHER -> GetOp(cmd)

\* a mutant of RespValue: apply_voltage answers with the write's result
RespValueResult(x) ==
    CASE x.cmd = "reset" -> StrDone
      [] OTHER -> x.result

\* the value of the handler's publish_response
RespValue(x) ==
    CASE x.cmd = "apply_voltage" -> Voltage(x.payload)
      [] x.cmd = "reset" -> StrDone
      [] OTHER -> x.result

\* handle_connection_error: method.__name__.split("_")[1]
ErrCommand(cmd) ==
    CASE cmd \in {"apply_voltage"} -> "apply"
      [] cmd = "auto_range_source" -> "auto"
      [] cmd \in {"current", "current_range"} -> "current"
      [] cmd = "disable_source" -> "disable"
      [] cmd = "enable_source" -> "enable"
      [] cmd \in {"measure_continously", "measure_current"} -> "measure"
      [] cmd \in {"source_enabled", "source_voltage", "source_voltage_range"} -> "source"
      [] OTHER -> cmd

\* where a handler starts
FirstPc(cmd) ==
    CASE cmd = "apply_voltage" -> "validate"
      [] cmd = "measure_continously" -> "mc_set"
      [] cmd \in {"reset", "shutdown"} -> "clear"
      [] OTHER -> "save"

AfterClear(x) ==
    IF SetOp(x.cmd, x.payload) # "" THEN "set"
    ELSE IF GetOp(x.cmd) # "" THEN "get" ELSE "respond"

AfterSet(x) ==
    IF GetOp(x.cmd) # "" THEN "get" ELSE "respond"

\* ---- the budget of operations: a request is delivered, and the timer runs
\* ---- out, only when the operations it leads to fit under MaxOps
Cost(cmd, payload) ==
    (IF SetOp(cmd, payload) # "" THEN 1 ELSE 0)
    + (IF SetOp(cmd, payload) = "set_source_enabled" THEN 1 ELSE 0)
    + (IF GetOp(cmd) # "" THEN 1 ELSE 0)

RemOps(x) ==
    CASE x.pc \in {"validate", "save", "clear", "set"} -> Cost(x.cmd, x.payload)
      [] x.pc \in {"waitset", "get"} -> IF GetOp(x.cmd) # "" THEN 1 ELSE 0
      [] OTHER -> 0

NeedNested ==
    Cardinality({i \in OpIds : /\ ops[i].name = "set_source_enabled"
                               /\ \/ ops[i].status = "queued"
                                  \/ ops[i].status = "running" /\ wpc \in {"check", "body"}})

NeedPoll ==
    IF mpc = "perform" \/ elapsed > CURRENT_MEASUREMENT_INTERVAL THEN 1 ELSE 0

Outstanding ==
    RemOps(h["bus"]) + RemOps(h["main"]) + NeedNested + NeedPoll

ProcessAlive == mpc # "stopped"

\* the thread t is inside a handler and may take a step
Active(t) ==
    /\ h[t].pc \notin {"idle", "raised"}
    /\ ProcessAlive
    /\ t = "main" => mpc = "handler"

\* the handler activation of thread t ends: the bus thread is free again (or
\* dead, when an exception escaped on_message); the poller's handler returns
\* to the loop of main()
Finish(t, outcome) ==
    /\ finished' = finished \cup
           {[tag |-> Tag(h[t].payload), cmd |-> h[t].cmd, payload |-> h[t].payload,
             outcome |-> outcome, up |-> h[t].up /\ CanPublish,
             faulted |-> h[t].faulted]}
    /\ h' = [h EXCEPT ![t] = IF outcome = "raised" THEN [Idle EXCEPT !.pc = "raised"]
                              ELSE Idle]
    /\ mpc' = IF t = "main" THEN (IF outcome = "raised" THEN "crashed" ELSE "loop")
              ELSE mpc

Step(t, pc) ==
    /\ h' = [h EXCEPT ![t].pc = pc]
    /\ UNCHANGED <<finished, mpc>>

\* handle_apply_voltage: voltage == "None" or is_number(voltage); otherwise
\* publish_error.  An exception of is_number escapes the handler.
HValidate(t) ==
    /\ Active(t)
    /\ h[t].pc = "validate"
    /\ LET voltage == Voltage(h[t].payload)
           ok == IF voltage = StrNone THEN "True" ELSE is_number(voltage)
       IN  CASE ok = "True" -> Step(t, "save") /\ UNCHANGED published
             [] ok = "False" ->
                  /\ published' = publish_error("apply_voltage", voltage)
                  /\ Finish(t, "rejected")
             [] OTHER -> Finish(t, "raised") /\ UNCHANGED published
    /\ UNCHANGED <<queue, ops, executing, wvars, cvars, flag, userStop,
                   bus, elapsed, counts>>

\* measure_continously_value = self.measure_continously.is_set()
HSave(t) ==
    /\ Active(t)
    /\ h[t].pc = "save"
    /\ h' = [h EXCEPT ![t].saved = flag, ![t].pc = "clear"]
    /\ UNCHANGED <<queue, ops, executing, wvars, cvars, flag, userStop,
                   bus, mpc, elapsed, published, finished, counts>>

\* self.measure_continously.clear()
HClear(t) ==
    /\ Active(t)
    /\ h[t].pc = "clear"
    /\ flag' = FALSE
    /\ Step(t, AfterClear(h[t]))
    /\ UNCHANGED <<queue, ops, executing, wvars, cvars, userStop,
                   bus, elapsed, published, counts>>

\* self.keithley.<operation>: the submit wrapper puts it on the queue
HSubmit(t) ==
    /\ Active(t)
    /\ h[t].pc \in {"set", "get"}
    /\ IF h[t].pc = "set"
       THEN Submit(SetOp(h[t].cmd, h[t].payload), SetArg(h[t].cmd, h[t].payload),
                   Tag(h[t].payload))
       ELSE Submit(GetOp(h[t].cmd), Absent, Tag(h[t].payload))
    /\ h' = [h EXCEPT ![t].opid = Len(ops) + 1,
                      ![t].pc = IF h[t].pc = "set" THEN "waitset" ELSE "waitget"]
    /\ UNCHANGED <<wvars, cvars, flag, userStop, bus, mpc, elapsed,
                   published, finished, counts>>

AfterWait(x) ==
    IF x.pc = "waitset" THEN AfterSet(x) ELSE "respond"

\* future.result(timeout=10) returns what the worker set; an exception held
\* by the Future is re-raised and handle_connection_error publishes it
HReturn(t) ==
    /\ Active(t)
    /\ h[t].pc \in {"waitset", "waitget"}
    /\ ops[h[t].opid].fstate # "pending"
    /\ IF ops[h[t].opid].fstate = "result"
       THEN /\ h' = [h EXCEPT ![t].result = ops[h[t].opid].fvalue,
                              ![t].pc = AfterWait(h[t])]
            /\ UNCHANGED <<published, finished, mpc>>
       ELSE /\ published' = publish_connection_error(ErrCommand(h[t].cmd),
                                                     ops[h[t].opid].fault)
            /\ Finish(t, "connection_error")
    /\ UNCHANGED <<queue, ops, executing, wvars, cvars, flag, userStop,
                   bus, elapsed, counts>>

\* future.result(timeout=10) expires: TimeoutError is logged, None returned
HTimeout(t) ==
    /\ Active(t)
    /\ h[t].pc \in {"waitset", "waitget"}
    /\ WaitExpires(ops[h[t].opid])
    /\ h' = [h EXCEPT ![t].result = PyNone, ![t].pc = AfterWait(h[t]),
                      ![t].faulted = @ \/ ops[h[t].opid].status = "raised"]
    /\ UNCHANGED <<queue, ops, executing, wvars, cvars, flag, userStop,
                   bus, mpc, elapsed, published, finished, counts>>

\* self.publish_response(<command>, <value>, payload), then the flag goes
\* back to the saved value; reset and shutdown restore nothing and close with
\* publish_measure_continously(False, payload)
HRespond(t) ==
    /\ Active(t)
    /\ h[t].pc = "respond"
    /\ LET responded == publish_response(RespName(h[t].cmd), RespValue(h[t]), h[t].payload) IN
       IF h[t].cmd \in {"reset", "shutdown"}
       THEN /\ published' =
                  IF CanPublish
                  THEN responded (+) SetToBag({Pub("response", "measure_continously",
                                                   h[t].payload, PyFalse)})
                  ELSE responded
            /\ Finish(t, "done")
            /\ UNCHANGED flag
       ELSE /\ published' = responded
            /\ flag' = h[t].saved
            /\ Step(t, "pubmc")
    /\ UNCHANGED <<queue, ops, executing, wvars, cvars, userStop,
                   bus, elapsed, counts>>

\* handle_measure_continously: the flag takes bool(payload["value"])
HMcSet(t) ==
    /\ Active(t)
    /\ h[t].pc = "mc_set"
    /\ flag' = IF h[t].payload.value # Absent THEN py_bool(h[t].payload.value) ELSE flag
    /\ Step(t, "pubmc")
    /\ UNCHANGED <<queue, ops, executing, wvars, cvars, userStop,
                   bus, elapsed, published, counts>>

\* the closing publish_measure_continously(payload, is_set())
HPubMC(t) ==
    /\ Active(t)
    /\ h[t].pc = "pubmc"
    /\ published' = publish_measure_continously(h[t].payload, PyBool(flag))
    /\ Finish(t, "done")
    /\ UNCHANGED <<queue, ops, executing, wvars, cvars, flag, userStop,
                   bus, elapsed, counts>>

\* the steps the handlers share
Handler(t) ==
    \/ HSave(t)
    \/ HClear(t)
    \/ HSubmit(t)
    \/ HReturn(t)
    \/ HTimeout(t)
    \/ HRespond(t)
    \/ HPubMC(t)

\* ---------------------------------------------------------- the bus thread
\* the values a request may carry for a command
ValuesFor(cmd) ==
    CASE cmd = "apply_voltage" -> {Absent, StrNone, Str5, StrBanana, PyNone}
      [] cmd = "measure_continously" -> {Absent, PyTrue, PyFalse}
      [] cmd = "source_enabled" -> {Absent, PyTrue, PyFalse}
      [] cmd \in {"current_range", "source_voltage", "source_voltage_range"} ->
             {Absent, Str5}
      [] OTHER -> {Absent}

KeysFor(cmd) ==
    IF cmd = "measure_current" THEN BOOLEAN ELSE {FALSE}

BusIdle == h["bus"].pc = "idle"

\* on_connect: reason code 0 subscribes; any other sets self.disconnected
\* and raises Keithley6517BMQTTClientNotConnectedException
OnConnect ==
    /\ ProcessAlive /\ bus.loop /\ BusIdle
    /\ bus.link = "connecting"
    /\ \/ /\ bus' = [bus EXCEPT !.link = "up"]
          /\ UNCHANGED h
       \/ /\ bus' = [bus EXCEPT !.link = "none", !.disconnected = TRUE]
          /\ h' = [h EXCEPT !["bus"].pc = "raised"]
    /\ UNCHANGED <<queue, ops, executing, wvars, cvars, flag, userStop,
                   mpc, elapsed, published, finished, counts>>

\* on_disconnect: self.disconnected = True, reason_code
OnDisconnect ==
    /\ ProcessAlive /\ bus.loop /\ BusIdle
    /\ bus.link = "up"
    /\ bus' = [bus EXCEPT !.link = "down", !.disconnected = TRUE]
    /\ h' = [h EXCEPT !["main"].up = FALSE]
    /\ UNCHANGED <<queue, ops, executing, wvars, cvars, flag, userStop,
                   mpc, elapsed, published, finished, counts>>

\* on_message: the payload is parsed and the topic suffix selects the handler
OnMessage(cmd, value, keys) ==
    /\ ProcessAlive /\ bus.loop /\ BusIdle
    /\ bus.link = "up"
    /\ counts.msgs < MaxMsgs
    /\ LET payload == Payload("bus", counts.msgs + 1, value, keys) IN
        /\ Len(ops) + Outstanding + Cost(cmd, payload) <= MaxOps
        /\ h' = [h EXCEPT !["bus"] = [Idle EXCEPT !.pc = FirstPc(cmd), !.cmd = cmd,
                                                 !.payload = payload, !.up = TRUE]]
    /\ counts' = [counts EXCEPT !.msgs = @ + 1]
    /\ UNCHANGED <<queue, ops, executing, wvars, cvars, flag, userStop,
                   bus, mpc, elapsed, published, finished>>

\* --------------------------------------------------------- the main thread
\* main(): self.disconnected = (False, None), a new mqtt.Client, and
\* connect_to_broker(), which sets self.disconnected when the connect fails
MainConnect ==
    /\ mpc = "boot"
    /\ counts.sessions < MaxSessions
    /\ \E ok \in BOOLEAN :
         bus' = [client |-> TRUE, loop |-> FALSE,
                 link |-> IF ok THEN "connecting" ELSE "none",
                 disconnected |-> ~ok]
    /\ counts' = [counts EXCEPT !.sessions = @ + 1]
    /\ mpc' = "start"
    /\ UNCHANGED <<queue, ops, executing, wvars, cvars, flag, userStop,
                   h, elapsed, published, finished>>

\* main(): self.keithley.start_worker_thread() (Thread.start raises
\* RuntimeError on a thread that was started before), self.last_time = time()
\* and self.client.loop_start()
MainStartWorker ==
    /\ mpc = "start"
    /\ IF wpc = "new"
       THEN /\ wpc' = LoopTest(stopEvent)
            /\ elapsed' = 0
            /\ bus' = [bus EXCEPT !.loop = TRUE]
            /\ mpc' = "loop"
       ELSE /\ mpc' = "crashed"
            /\ UNCHANGED <<wpc, elapsed, bus>>
    /\ UNCHANGED <<queue, ops, executing, startOrder, wcur, stopEvent, cvars,
                   flag, userStop, h, published, finished, counts>>

\* a mutant of PollDue: the poller reads whatever the flag says
PollDueAlways(connected, on) ==
    connected

\* perform_current_measurement: client.is_connected() and the flag is set
PollDue(connected, on) ==
    connected /\ on

\* main(): the while condition, then the timer test, which resets last_time
MainLoop ==
    /\ mpc = "loop"
    /\ IF bus.disconnected \/ userStop
       THEN /\ mpc' = "teardown"
            /\ UNCHANGED elapsed
       ELSE /\ elapsed > CURRENT_MEASUREMENT_INTERVAL
            /\ elapsed' = 0
            /\ mpc' = "perform"
    /\ UNCHANGED <<queue, ops, executing, wvars, cvars, flag, userStop,
                   bus, h, published, finished, counts>>

\* perform_current_measurement: handle_current(payload=json.dumps(...))
MainPerform ==
    /\ mpc = "perform"
    /\ IF PollDue(bus.link = "up", flag)
       THEN /\ h' = [h EXCEPT !["main"] =
                       [Idle EXCEPT !.pc = FirstPc("current"), !.cmd = "current",
                                    !.payload = Payload("poll", counts.polls + 1, Absent, FALSE),
                                    !.up = TRUE]]
            /\ counts' = [counts EXCEPT !.polls = @ + 1]
            /\ mpc' = "handler"
       ELSE /\ mpc' = "loop"
            /\ UNCHANGED <<h, counts>>
    /\ UNCHANGED <<queue, ops, executing, wvars, cvars, flag, userStop,
                   bus, elapsed, published, finished>>

\* main(): self.client.loop_stop(), which joins the network thread, and
\* self.client = None; the reconnect loop then calls main() again
MainTeardown ==
    /\ mpc = "teardown"
    /\ h["bus"].pc \in {"idle", "raised"}
    /\ bus' = [bus EXCEPT !.client = FALSE, !.loop = FALSE]
    /\ h' = [h EXCEPT !["bus"] = Idle]
    /\ mpc' = "boot"
    /\ UNCHANGED <<queue, ops, executing, wvars, cvars, flag, userStop,
                   elapsed, published, finished, counts>>

\* KeyboardInterrupt in the main thread, then stop(): user_stop_event.set(),
\* measure_continously.clear() and worker_thread.stop()
Interrupt ==
    /\ mpc \in {"boot", "start", "loop", "perform", "handler", "teardown"}
    /\ userStop' = TRUE
    /\ flag' = FALSE
    /\ stopEvent' = TRUE
    /\ h' = [h EXCEPT !["main"] = Idle]
    /\ mpc' = "join"
    /\ UNCHANGED <<queue, ops, executing, startOrder, wpc, wcur, cvars,
                   bus, elapsed, published, finished, counts>>

\* stop(): worker_thread.join() (RuntimeError on a thread never started);
\* the script ends after stop() and takes the daemon network thread with it
StopJoin ==
    /\ mpc = "join"
    /\ wpc \in {"new", "exited"}
    /\ mpc' = IF wpc = "new" THEN "crashed" ELSE "stopped"
    /\ UNCHANGED <<queue, ops, executing, wvars, cvars, flag, userStop,
                   bus, h, elapsed, published, finished, counts>>

\* ----------------------------------------------------------- environment
\* time passes; the timer runs out only while a poll still fits the bounds
Tick ==
    /\ mpc \in {"loop", "perform", "handler"}
    /\ elapsed <= CURRENT_MEASUREMENT_INTERVAL
    /\ elapsed + 1 > CURRENT_MEASUREMENT_INTERVAL =>
         /\ counts.polls < MaxPolls
         /\ Len(ops) + Outstanding + 1 <= MaxOps
    /\ elapsed' = elapsed + 1
    /\ UNCHANGED <<queue, ops, executing, wvars, cvars, flag, userStop,
                   bus, h, mpc, published, finished, counts>>

\* ------------------------------ the non-threaded logic (keithley6517b-mqtt)
\* the decorated methods of the older Keithley6517BLogic, called directly
LegacyOperations == {"apply_voltage", "current", "set_current"}

LegacyArgs(name) ==
    IF name = "current" THEN {Absent} ELSE {Str5, StrNone}

\* one call of the object with what it gave back: the exception that left
\* it (or "returned"), whether try_connect ran, and the value returned
LegacyCall(name, arg, outcome, fault, connTried, value) ==
    [name |-> name, arg |-> arg, outcome |-> outcome, fault |-> fault,
     connTried |-> connTried, value |-> value]

LegacyLogged(obj, call) ==
    [obj EXCEPT !.log = Append(@, call)]

\* Keithley6517BLogic.__init__; is_connected is what the attribute lookup
\* self.is_connected finds: the method of the class
LegacyNew ==
    [is_connected |-> "method", isConnected |-> FALSE, handle |-> FALSE,
     voltage |-> PyNone, current |-> PyNone, connects |-> 0, onConnected |-> 0,
     log |-> <<>>]

\* self.is_connected(): the method returns self._is_connected; once the
\* instance attribute is_connected = False exists the call is False(), a
\* TypeError
Legacy_is_connected(obj) ==
    IF obj.is_connected = "method"
    THEN [raised |-> "none", value |-> obj.isConnected]
    ELSE [raised |-> "TypeError", value |-> FALSE]

\* try_connect: open the instrument, set _is_connected and call on_connected,
\* or clear _is_connected on VisaIOError
Legacy_try_connect(obj, opened) ==
    IF opened
    THEN [obj EXCEPT !.handle = TRUE, !.isConnected = TRUE,
                     !.connects = @ + 1, !.onConnected = @ + 1]
    ELSE [obj EXCEPT !.isConnected = FALSE, !.connects = @ + 1]

\* check_connection_decorator, except VisaIOError: self.is_connected = False
Legacy_on_fault(obj) ==
    [obj EXCEPT !.is_connected = "False"]

\* the bodies of the decorated methods
Legacy_body(obj, name, arg) ==
    CASE name = "apply_voltage" -> [obj EXCEPT !.voltage = arg]
      [] name = "set_current" -> [obj EXCEPT !.current = arg]
      [] OTHER -> obj

Legacy_result(name) ==
    IF name = "current" THEN Amps ELSE PyNone

\* check_connection_decorator.wrapper around one method: check_connection
\* (outside the try), then the method; the instrument opens or not, and the
\* access works or raises VisaIOError
LegacyOperation(name, arg) ==
    /\ Len(legacy.log) < MaxCalls
    /\ LET chk == Legacy_is_connected(legacy) IN
       IF chk.raised # "none"
       THEN legacy' = LegacyLogged(legacy,
                         LegacyCall(name, arg, chk.raised, "type", FALSE, PyNone))
       ELSE \E opened \in BOOLEAN, reachable \in BOOLEAN :
            LET tried == ~chk.value
                obj == IF tried THEN Legacy_try_connect(legacy, opened) ELSE legacy
            IN  IF tried /\ ~opened
                THEN legacy' = LegacyLogged(obj,
                         LegacyCall(name, arg, "KeithleyNotConnectedException",
                                    "conn", TRUE, PyNone))
                ELSE IF reachable
                THEN legacy' = LegacyLogged(Legacy_body(obj, name, arg),
                         LegacyCall(name, arg, "returned", "none", tried,
                                    Legacy_result(name)))
                ELSE legacy' = LegacyLogged(Legacy_on_fault(obj),
                         LegacyCall(name, arg, "KeithleyNotConnectedException",
                                    "io", tried, PyNone))
    /\ UNCHANGED <<queue, ops, executing, wvars, isConnected, device,
                   connectAttempts, onConnectedCalls, flag, userStop, bus,
                   h, mpc, elapsed, published, finished, counts>>

\* the owner asks is_connected()
LegacyIsConnected ==
    /\ Len(legacy.log) < MaxCalls
    /\ LET chk == Legacy_is_connected(legacy) IN
       legacy' = LegacyLogged(legacy,
                    IF chk.raised = "none"
                    THEN LegacyCall("is_connected", Absent, "returned", "none",
                                    FALSE, PyBool(chk.value))
                    ELSE LegacyCall("is_connected", Absent, chk.raised, "type",
                                    FALSE, PyNone))
    /\ UNCHANGED <<queue, ops, executing, wvars, isConnected, device,
                   connectAttempts, onConnectedCalls, flag, userStop, bus,
                   h, mpc, elapsed, published, finished, counts>>

\* ------------------------------------------------------- the specification
Init ==
    /\ queue = <<>>
    /\ ops = <<>>
    /\ startOrder = <<>>
    /\ executing = {}
    /\ wpc = "new"
    /\ wcur = 0
    /\ stopEvent = FALSE
    /\ isConnected = FALSE
    /\ device = [handle |-> FALSE, regs |-> [r \in Registers |-> JV("num", "0")]]
    /\ connectAttempts = 0
    /\ onConnectedCalls = 0
    /\ flag = FALSE
    /\ userStop = FALSE
    /\ bus = [client |-> FALSE, loop |-> FALSE, link |-> "none", disconnected |-> FALSE]
    /\ h = [t \in Threads |-> Idle]
    /\ mpc = "boot"
    /\ elapsed = 0
    /\ published = EmptyBag
    /\ finished = {}
    /\ counts = [msgs |-> 0, polls |-> 0, sessions |-> 0]
    /\ legacy = LegacyNew

\* what the program does whatever the requests are
Core ==
    \/ Worker
    \/ \E t \in Threads : Handler(t)
    \/ OnConnect
    \/ OnDisconnect
    \/ MainConnect
    \/ MainStartWorker
    \/ MainLoop
    \/ MainTeardown
    \/ Interrupt
    \/ StopJoin

\* the requests of the poller environment
PollCommands == {"measure_continously", "current"}

\* requests of every command arrive, in a time span shorter than the
\* measurement interval
NextBus ==
    \/ Core
    \/ WorkerNested
    \/ \E t \in Threads : HValidate(t)
    \/ \E t \in Threads : HMcSet(t)
    \/ \E cmd \in Commands : \E value \in ValuesFor(cmd) : \E keys \in KeysFor(cmd) :
         OnMessage(cmd, value, keys)

\* time passes and the poller runs, next to requests that switch it and
\* requests that read the current
NextPoll ==
    \/ Core
    \/ Tick
    \/ MainPerform
    \/ \E t \in Threads : HMcSet(t)
    \/ \E cmd \in PollCommands : \E value \in ValuesFor(cmd) :
         OnMessage(cmd, value, FALSE)

\* the requests of the queue environment: a read, and the setter that submits
\* from inside the worker
QueueCommands == {"current", "source_enabled"}

\* requests that keep the worker busy, in a time span shorter than the
\* measurement interval
NextQueue ==
    \/ Core
    \/ WorkerNested
    \/ \E cmd \in QueueCommands : \E value \in ValuesFor(cmd) :
         OnMessage(cmd, value, FALSE)

\* the requests of the flag environment: the explicit switch and a reset
FlagCommands == {"measure_continously", "reset"}

\* time passes and the poller runs, next to requests that switch the
\* continuous-measurement flag and requests that force it off
NextFlag ==
    \/ Core
    \/ Tick
    \/ MainPerform
    \/ \E t \in Threads : HMcSet(t)
    \/ \E cmd \in FlagCommands : \E value \in ValuesFor(cmd) :
         OnMessage(cmd, value, FALSE)

\* the calls a user of the non-threaded logic object makes
NextLegacy ==
    \/ \E name \in LegacyOperations : \E arg \in LegacyArgs(name) :
         LegacyOperation(name, arg)
    \/ LegacyIsConnected

Next ==
    \/ NextBus
    \/ NextPoll
    \/ NextQueue
    \/ NextFlag
    \/ NextLegacy

Spec == Init /\ [][Next]_vars

SpecBus == Init /\ [][NextBus]_vars

SpecPoll == Init /\ [][NextPoll]_vars

SpecQueue == Init /\ [][NextQueue]_vars

SpecFlag == Init /\ [][NextFlag]_vars

SpecLegacy == Init /\ [][NextLegacy]_vars

\* the worker is a thread of its own: whatever step it can take, it takes (a
\* device call returns or raises within the VISA timeout, a bounded wait ends)
FairQueue == SpecQueue /\ WF_vars(Worker \/ WorkerNested)

\* every thread inside a handler keeps running as well: a caller's
\* future.result(timeout=10) returns or raises when the bound has passed
FairCallers == FairQueue /\ \A t \in Threads : WF_vars(Handler(t))

\* ================================================================ claims
Started == {startOrder[k] : k \in 1..Len(startOrder)}

Queued == {queue[k] : k \in 1..Len(queue)}

Ended(i) == ops[i].status \in {"returned", "raised"}

OpsOf(tag) == {i \in OpIds : ops[i].by = tag}

Published == BagToSet(published)

\* C1: at most one queued instrument operation is executing at any instant,
\* whichever of the bus handlers and the poller submitted it
C1_MutualExclusion ==
    Cardinality(executing) <= 1

\* an operation of one caller is executing while one of the other waits
C1_Witness ==
    \E i \in executing : \E j \in Queued :
        {ops[i].by.src, ops[j].by.src} = {"bus", "poll"}

\* C2: operations are started in the order they were enqueued: whenever B has
\* been started, every A enqueued before B was started before it
C2_Fifo ==
    /\ \A x, y \in 1..Len(startOrder) : x < y => startOrder[x] < startOrder[y]
    /\ \A b \in Started : \A a \in 1..b : a \in Started

\* operations of both callers were queued together and both were started
C2_Witness ==
    /\ Len(startOrder) >= 2
    /\ {ops[startOrder[1]].by.src, ops[startOrder[2]].by.src} = {"bus", "poll"}

\* C3 (fails on the code): every operation the worker has taken and finished
\* has its future fulfilled exactly once, with the value it returned or with
\* the fault it raised
C3_Fulfilled ==
    \A i \in OpIds :
        Ended(i) =>
            /\ ops[i].sets = 1
            /\ ops[i].status = "returned" => ops[i].fstate = "result"
            /\ ops[i].status = "raised" => ops[i].fstate = "exception"

\* C4 (fails on the code): when an operation of a handler failed with a device
\* fault before the handler stopped waiting for it, and the bus session was
\* connected, a connection error naming the command is published and nothing
\* escapes on_message
C4_ConnectionErrorPublished ==
    \A f \in finished :
        (f.up /\ f.faulted) =>
            /\ f.outcome # "raised"
            /\ \E m \in Published :
                 /\ m.topic = "error/disconnected"
                 /\ m.cmd \in {f.cmd, ErrCommand(f.cmd)}

\* C5: a fault in one operation does not stop the worker: unless a stop signal
\* is given, every operation enqueued after one that raised is taken and
\* executed
C5_FaultDoesNotStopWorker ==
    \A i, j \in 1..MaxOps :
        (i < j /\ j <= Len(ops) /\ ops[i].status = "raised")
            ~> (stopEvent \/ (j <= Len(ops) /\ Ended(j)))

\* an operation raised, no stop signal was given, and a later one was executed
C5_Witness ==
    /\ ~stopEvent
    /\ \E i, j \in OpIds : i < j /\ ops[i].status = "raised" /\ Ended(j)

\* the operation i is past its connection check
Checked(i) ==
    \/ Ended(i)
    \/ wcur = i /\ wpc \in {"body", "nested"}

\* the operation the worker took right after i
NextStarted(i) ==
    {startOrder[k + 1] : k \in {x \in 1..(Len(startOrder) - 1) : startOrder[x] = i}}

C6_FreshConnect ==
    \A i \in OpIds : \A j \in NextStarted(i) :
        ops[i].fault = "io" =>
            /\ ~ops[j].preConn
            /\ Checked(j) => ops[j].connTried
            /\ ops[j].touched > 0 => ops[j].connTried

C6_FaultStep ==
    \E i \in OpIds : ops[i].fault # "io" /\ ops'[i].fault = "io"

\* C6: a step in which an operation raises a transport I/O fault leaves the
\* connection state Disconnected, and the operation executed next attempts a
\* connect before it touches the device handle
C6_IOFaultDisconnects ==
    [][(C6_FaultStep => ~isConnected') /\ C6_FreshConnect']_vars

\* an I/O fault was followed by an operation that reconnected and ran
C6_Witness ==
    \E i \in OpIds : \E j \in NextStarted(i) :
        ops[i].fault = "io" /\ ops[j].connTried /\ ops[j].status = "returned"

C7_CheckStep ==
    wpc = "check" /\ wpc' # "check"

\* C7: check_connection on a Connected guard makes no connect attempt and calls
\* no callback; on a Disconnected guard a successful connect makes the state
\* Connected and calls the callback once, a failed one leaves it Disconnected,
\* calls nothing and raises the connection error; the callback is called in
\* the steps that go from Disconnected to Connected, once, and in no other
C7_EnsureConnected ==
    [][/\ C7_CheckStep /\ isConnected =>
            /\ isConnected'
            /\ connectAttempts' = connectAttempts
            /\ onConnectedCalls' = onConnectedCalls
       /\ C7_CheckStep /\ ~isConnected /\ isConnected' =>
            /\ connectAttempts' = connectAttempts + 1
            /\ onConnectedCalls' = onConnectedCalls + 1
       /\ C7_CheckStep /\ ~isConnected /\ ~isConnected' =>
            /\ connectAttempts' = connectAttempts + 1
            /\ onConnectedCalls' = onConnectedCalls
            /\ ops'[wcur].status = "raised" /\ ops'[wcur].fault = "conn"
       /\ onConnectedCalls' =
            onConnectedCalls + (IF ~isConnected /\ isConnected' THEN 1 ELSE 0)
      ]_vars

\* the guard has connected, has passed a check while Connected and has failed
\* a connect
C7_Witness ==
    /\ onConnectedCalls >= 1
    /\ \E i \in OpIds : ops[i].preConn /\ ops[i].status = "returned"
    /\ \E i \in OpIds : ops[i].fault = "conn"

\* the finished apply_voltage requests with "None", a number or no value
C8_Requests ==
    {f \in finished : /\ f.cmd = "apply_voltage"
                      /\ f.up
                      /\ f.outcome = "done"}

C8_Responses(f) ==
    {m \in Published : m.topic = "response" /\ m.cmd = "apply_voltage"
                       /\ m.sender = f.payload}

\* one write is enqueued and one response, with the requested voltage and the
\* request payload, is published
C8_OneWriteOneResponse(f) ==
    /\ Cardinality(OpsOf(f.tag)) = 1
    /\ \A i \in OpsOf(f.tag) :
         ops[i].name = "apply_voltage" /\ ops[i].arg = Voltage(f.payload)
    /\ C8_Responses(f) = {Pub("response", "apply_voltage", Voltage(f.payload), f.payload)}
    /\ \A m \in C8_Responses(f) : CopiesIn(m, published) = 1

\* C8 as stated (fails on the code): once the worker has stopped taking
\* operations, the one write of every answered apply_voltage request has been
\* executed exactly once
C8_Original ==
    \A f \in C8_Requests :
        /\ C8_OneWriteOneResponse(f)
        /\ wpc = "exited" =>
             \A i \in OpsOf(f.tag) :
                 /\ ops[i].takes = 1
                 /\ ops[i].fault = "none" => ops[i].touched = 1

\* C8 amended: the write is enqueued once and never executed twice; it is left
\* unexecuted only when the worker was signalled to stop before taking it; an
\* execution on a reachable instrument is one access to the device
C8_ApplyVoltage ==
    \A f \in C8_Requests :
        /\ C8_OneWriteOneResponse(f)
        /\ \A i \in OpsOf(f.tag) :
             /\ ops[i].takes <= 1
             /\ ops[i].status = "queued" => (i \in Queued /\ (wpc = "exited" => stopEvent))
             /\ ops[i].status = "returned" => ops[i].takes = 1 /\ ops[i].touched = 1

\* a "5.0" request was answered and its write was executed
C8_Witness ==
    \E f \in C8_Requests :
        /\ f.payload.value = Str5
        /\ \E i \in OpsOf(f.tag) : ops[i].status = "returned"

\* the claim's reading of a value that is neither "None" nor numeric
C9_Invalid(value) ==
    /\ value \notin {Absent, StrNone}
    /\ value.t # "num"
    /\ ~(value.t = "str" /\ value.v \in FloatStrings)

\* C9 (fails on the code): an apply_voltage request whose value is neither
\* "None" nor numeric enqueues nothing and is answered by one error naming
\* apply_voltage and carrying the value
C9_InvalidRejected ==
    \A f \in finished :
        (f.cmd = "apply_voltage" /\ C9_Invalid(f.payload.value)) =>
            /\ OpsOf(f.tag) = {}
            /\ f.outcome = "rejected"
            /\ CopiesIn(Pub("error/command", "apply_voltage", f.payload.value, Absent),
                        published) = 1

C10_PerformStep ==
    mpc = "perform" /\ mpc' \in {"loop", "handler"}

C10_ReadSynthesised ==
    /\ counts'.polls = counts.polls + 1
    /\ h'["main"].cmd = "current"
    /\ h'["main"].pc = FirstPc("current")
    /\ mpc' = "handler"

C10_Timer ==
    /\ (mpc = "loop" /\ mpc' = "perform") => elapsed' = 0
    /\ counts'.polls # counts.polls => C10_PerformStep
    /\ (mpc # "perform" /\ mpc' = "perform") =>
         (mpc = "loop" /\ elapsed > CURRENT_MEASUREMENT_INTERVAL)

\* C10 as stated (fails on the code): at an expiry the poller starts one
\* current handler when the flag is On and none when it is Off
C10_Original ==
    [][/\ C10_Timer
       /\ C10_PerformStep /\ flag => C10_ReadSynthesised
       /\ C10_PerformStep /\ ~flag => UNCHANGED <<counts, h>>
      ]_vars

\* C10 amended: one current handler is started at an expiry when the flag is
\* On and the bus client is connected, and none otherwise; the timer is reset
\* at each expiry
C10_Poller ==
    [][/\ C10_Timer
       /\ C10_PerformStep /\ flag /\ bus.link = "up" => C10_ReadSynthesised
       /\ C10_PerformStep /\ ~(flag /\ bus.link = "up") => UNCHANGED <<counts, h>>
      ]_vars

\* the poller's current handler is running
C10_Witness ==
    /\ mpc = "handler"
    /\ h["main"].cmd = "current"
    /\ h["main"].payload.src = "poll"

\* the request numbers of the explicit measure_continously requests that have
\* switched the flag on
SwitchedOn ==
    {f.tag.n : f \in {g \in finished : /\ g.cmd = "measure_continously"
                                        /\ g.payload.value # Absent
                                        /\ py_bool(g.payload.value)}}
    \cup {h[t].payload.n : t \in {u \in Threads : /\ h[u].cmd = "measure_continously"
                                                  /\ h[u].pc = "pubmc"
                                                  /\ h[u].payload.value # Absent
                                                  /\ py_bool(h[u].payload.value)}}

\* a reset or a shutdown request has been handled, and no explicit request
\* has switched the flag on since
ForcedOff ==
    \E f \in finished : /\ f.cmd \in {"reset", "shutdown"}
                         /\ \A n \in SwitchedOn : n < f.tag.n

\* the step is the flag assignment of an explicit measure_continously request
ExplicitSwitch ==
    \E t \in Threads : /\ h[t].cmd = "measure_continously"
                       /\ h[t].pc = "mc_set"
                       /\ h'[t].pc = "pubmc"

\* C11 (fails on the code): the flag is Off when a reset or shutdown handler
\* ends, and once one has been handled only an explicit measure_continously
\* request turns the flag On; no other handler and no poller read does
C11_ForcedOffStays ==
    [][/\ \A t \in Threads :
            (h[t].cmd \in {"reset", "shutdown"} /\ h[t].pc = "respond" /\ h'[t].pc = "idle")
                => ~flag'
       /\ (ForcedOff /\ ~flag /\ flag') => ExplicitSwitch
      ]_vars

\* C12 (fails on the code): every call of main() by the reconnect loop starts
\* its session with the connection state Disconnected and the flag Off
C12_NewSessionClean ==
    [][(mpc = "boot" /\ mpc' = "start") => (~isConnected' /\ ~flag')]_vars

\* C13 (fails on the code): when stop() has returned on a started session the
\* stop signal is set, the flag is Off and the worker has ended, with no
\* operation in execution
C13_StopClean ==
    mpc = "stopped" =>
        /\ userStop /\ stopEvent
        /\ ~flag
        /\ wpc = "exited"
        /\ executing = {}

\* the publications that answer the request of the ended handler f: a response
\* echoing its payload, or an error publication naming its command
C14_Answers(f) ==
    {m \in Published :
        \/ m.topic = "response" /\ m.sender = f.payload
        \/ /\ m.topic \in {"error/command", "error/disconnected"}
           /\ m.cmd \in {f.cmd, ErrCommand(f.cmd)}}

\* C14 (fails on the code): every bus request whose handling ended while the
\* bus session was connected has a publication that answers it, and its
\* handling ended without an exception escaping on_message
C14_EveryRequestAnswered ==
    \A f \in finished :
        (f.tag.src = "bus" /\ f.up) =>
            /\ f.outcome # "raised"
            /\ C14_Answers(f) # {}

\* the ended source_voltage requests that carried a value and were answered
C15_Sets ==
    {f \in finished : /\ f.cmd = "source_voltage"
                      /\ f.payload.value # Absent
                      /\ f.up
                      /\ f.outcome = "done"}

\* the ended source_voltage requests that read back after the request f: f
\* itself, and a request without a value that was delivered right after it
C15_ReadBacks(f) ==
    {g \in finished : /\ g.cmd = "source_voltage"
                      /\ g.up
                      /\ g.outcome = "done"
                      /\ \/ g = f
                         \/ /\ g.payload.value = Absent
                            /\ g.tag.src = f.tag.src
                            /\ g.tag.n = f.tag.n + 1}

\* the values published in answer to the read-back g
C15_Values(g) ==
    {m.value : m \in {x \in Published : /\ x.topic = "response"
                                        /\ x.cmd = "source_voltage"
                                        /\ x.sender = g.payload}}

\* the write of f and the read of g, by operation id
C15_Write(f) ==
    {i \in OpsOf(f.tag) : ops[i].name = "set_source_voltage"}

C15_Read(g) ==
    {i \in OpsOf(g.tag) : ops[i].name = "source_voltage"}

\* the write is ahead of the read in the order of the queue and of execution
C15_WriteFirst(f, g) ==
    \A w \in C15_Write(f) : \A r \in C15_Read(g) :
        /\ w < r
        /\ r \in Started => w \in Started

\* C15 as stated (fails on the code): the read-back after a source_voltage
\* write is answered with the value just set
C15_Original ==
    \A f \in C15_Sets : \A g \in C15_ReadBacks(f) :
        /\ C15_WriteFirst(f, g)
        /\ C15_Values(g) = {f.payload.value}

\* C15 amended: the write precedes the read in queue order, also when the wait
\* for the write timed out; the read-back is answered with the value just set
\* when the write returned without a fault and the read's result reached the
\* handler before its wait expired (the answer is not null)
C15_RoundTrip ==
    \A f \in C15_Sets : \A g \in C15_ReadBacks(f) :
        /\ C15_WriteFirst(f, g)
        /\ Cardinality(C15_Values(g)) = 1
        /\ (\A w \in C15_Write(f) : ops[w].status = "returned")
             => C15_Values(g) \subseteq {f.payload.value, PyNone}

\* a write was read back with the value set, by its own handler and by the
\* request delivered right after it
C15_Witness ==
    \E f \in C15_Sets : \E g \in C15_ReadBacks(f) :
        /\ g # f
        /\ C15_Values(f) = {f.payload.value}
        /\ C15_Values(g) = {f.payload.value}

\* the handlers that save, suspend and restore the flag
C16_Restoring(t) ==
    h[t].cmd \notin {"", "reset", "shutdown", "measure_continously"}

\* the handler of thread t holds a saved flag value that it has yet to restore
C16_Holding(t) ==
    /\ C16_Restoring(t)
    /\ h[t].pc \in {"clear", "set", "waitset", "get", "waitget", "respond"}

\* the step is the flag assignment of a measure_continously request with a value
C16_Switch ==
    \E t \in Threads : /\ h[t].cmd = "measure_continously"
                       /\ h[t].payload.value # Absent
                       /\ h[t].pc = "mc_set"
                       /\ h'[t].pc = "pubmc"

\* C16 (fails on the code): as long as stop() has not been called, a handler
\* that suspends the flag finds it untouched when it restores it, no explicit
\* measure_continously request changes the flag while a handler holds a saved
\* value (its restore would overwrite the change), and when the handler ends
\* the flag has the value it had when the handler began
C16_FlagRestored ==
    [][\A t \in Threads :
          /\ (C16_Restoring(t) /\ ~userStop' /\ h[t].pc = "respond" /\ h'[t].pc = "pubmc")
                => ~flag
          /\ (C16_Switch /\ ~userStop') => ~C16_Holding(t)
          /\ (C16_Restoring(t) /\ ~userStop' /\ h[t].pc = "pubmc" /\ h'[t].pc = "idle")
                => flag' = h[t].saved
      ]_vars

\* the bus handler is between suspending the flag and restoring it
C17_Suspended ==
    /\ C16_Restoring("bus")
    /\ h["bus"].pc \in {"set", "waitset", "get", "waitget", "respond"}

\* the reads the poller synthesised
C17_PollReads ==
    {i \in OpIds : ops[i].by.src = "poll"}

\* C17 (fails on the code): while a bus handler has the flag suspended no poll
\* read is enqueued and none is executing, and no poll read lies in the queue
\* order between two operations of one bus handler
C17_NoPollWhileSuspended ==
    [][/\ (C17_Suspended /\ Len(ops') > Len(ops)) => ops'[Len(ops')].by.src # "poll"
       /\ C17_Suspended' => (C17_PollReads' \cap executing' = {})
       /\ \A i, j \in OpIds' : \A k \in C17_PollReads' :
            (ops'[i].by = ops'[j].by /\ ops'[i].by.src = "bus") => ~(i < k /\ k < j)
      ]_vars

\* the payloads of the requests handled so far
C18_Payloads ==
    {f.payload : f \in finished} \cup {h[t].payload : t \in Threads}

\* C18 (fails on the code): every publication on the measure_continously
\* response topic carries a boolean as value and a request payload as
\* sender_payload, and a reset or shutdown request handled on a connected bus
\* is closed by one with value false and its own payload
C18_StatePublication ==
    /\ \A m \in Published :
         (m.topic = "response" /\ m.cmd = "measure_continously") =>
             /\ m.value \in {PyTrue, PyFalse}
             /\ m.sender \in C18_Payloads
    /\ \A f \in finished :
         (f.cmd \in {"reset", "shutdown"} /\ f.up /\ f.outcome = "done") =>
             Pub("response", "measure_continously", PyFalse, f.payload) \in Published

\* the worker thread is running
WorkerLive ==
    wpc \notin {"new", "exited"}

\* C19 (fails on the code): starting the worker at the start of a session,
\* the first or a later one, succeeds: main() goes on to its loop with a live
\* worker
C19_WorkerPerSession ==
    [][(mpc = "start" /\ mpc' \notin {"start", "join"}) => (mpc' = "loop" /\ WorkerLive')]_vars

\* C20 (fails on the code): the bus client is torn down (network loop stopped,
\* client discarded) only after the worker was signalled to stop and has ended
C20_JoinBeforeTeardown ==
    [][(bus.client /\ ~bus.client') => (stopEvent /\ ~WorkerLive)]_vars

\* the bounded wait of thread t on its operation expires in this step
C21_WaitExpires(t) ==
    /\ h[t].pc \in {"waitset", "waitget"}
    /\ ops[h[t].opid].fstate = "pending"
    /\ h'[t].pc \notin {"waitset", "waitget", "idle"}

\* every operation is in the queue once until the worker takes it, and is
\* taken once
C21_OnceOnly ==
    /\ \A i \in OpIds :
         /\ ops[i].takes <= 1
         /\ ops[i].status = "queued" <=> i \in Queued
         /\ ops[i].takes = 1 <=> i \in Started
    /\ Cardinality(Queued) = Len(queue)
    /\ Cardinality(Started) = Len(startOrder)

\* C21: a caller whose wait expires gets None and goes on, the operation is
\* left as it was (queued, executing or ended), no operation is ever dropped
\* or taken twice, and unless a stop signal is given every operation is in the
\* end executed by the worker
C21_TimedOutStillExecuted ==
    /\ [][\A t \in Threads :
            C21_WaitExpires(t) =>
                /\ h'[t].result = PyNone
                /\ ops' = ops \/ Len(ops') = Len(ops) + 1
                /\ ops'[h[t].opid].status = "queued" => h[t].opid \in Queued']_vars
    /\ []C21_OnceOnly
    /\ \A i \in 1..MaxOps :
         (i <= Len(ops)) ~> (stopEvent \/ (i <= Len(ops) /\ Ended(i)))

\* a caller was answered null for a read that the worker then executed once,
\* with a value, and no stop signal was given
C21_Witness ==
    /\ ~stopEvent
    /\ \E i \in OpIds :
         /\ ops[i].name = "current"
         /\ ops[i].status = "returned" /\ ops[i].takes = 1 /\ ops[i].fvalue = Amps
         /\ \E m \in Published :
              /\ m.topic = "response" /\ m.cmd = "current"
              /\ m.sender # Absent /\ Tag(m.sender) = ops[i].by
              /\ m.value = PyNone

\* the step accesses the device handle: an operation's count of accesses grows
\* or an instrument register changes
C22_TouchStep ==
    \/ \E i \in OpIds : ops'[i].touched > ops[i].touched
    \/ device'.regs # device.regs

\* C22: the device handle is accessed only in a step of the worker that runs
\* the body of the one operation it holds, with the connection state
\* Connected and the device opened, after that operation's connection check
\* found the state Connected or connected; no step of a bus or session thread
\* accesses it
C22_DeviceGuarded ==
    [][C22_TouchStep =>
         /\ isConnected /\ device.handle
         /\ wpc = "body" /\ wcur \in OpIds /\ executing = {wcur}
         /\ ops[wcur].preConn \/ ops[wcur].connTried
         /\ ops'[wcur].touched = ops[wcur].touched + 1
         /\ \A i \in OpIds \ {wcur} : ops'[i].touched = ops[i].touched
         /\ h' = h
      ]_vars

\* one operation accessed the device after connecting, another after finding
\* the state Connected, and a third was refused by a failed connect
C22_Witness ==
    /\ \E i \in OpIds : ops[i].touched = 1 /\ ops[i].connTried
    /\ \E i \in OpIds : ops[i].touched = 1 /\ ops[i].preConn /\ ~ops[i].connTried
    /\ \E i \in OpIds : ops[i].touched = 0 /\ ops[i].fault = "conn"

\* C23 (fails on the code): no operation is submitted to the queue from inside
\* the worker, and the worker never waits for the future of an operation that
\* lies in its own queue
C23_NoSelfWait ==
    /\ \A i \in OpIds : ops[i].by.src # "worker"
    /\ wpc # "nested"

\* the thread t waits in future.result(timeout=10) of an operation it submitted
C24_Waiting(t) == Active(t) /\ h[t].pc \in {"waitset", "waitget"}

\* C24: every submission returns to its caller, whatever the worker does:
\* a handler thread that waits for its operation stops waiting (or the
\* process ends), and so does the worker when it waits for an operation it
\* submitted itself
C24_CallerReturns ==
    /\ \A t \in Threads : C24_Waiting(t) ~> ~C24_Waiting(t)
    /\ (wpc = "nested") ~> (wpc # "nested")

\* a request's wait ended with None although the worker had exited with the
\* operation still queued, after an earlier wait had ended with None on an
\* operation that raised in the worker
C24_Witness ==
    /\ ProcessAlive /\ wpc = "exited"
    /\ h["bus"].pc = "respond" /\ h["bus"].result = PyNone
    /\ ops[h["bus"].opid].status = "queued"
    /\ \E i \in OpIds :
         /\ ops[i].status = "raised" /\ ops[i].fstate = "pending"
         /\ \E m \in Published :
              /\ m.topic = "response" /\ m.sender # Absent
              /\ Tag(m.sender) = ops[i].by /\ m.value = PyNone

\* the last call of the non-threaded logic object raised a transport I/O fault
C25_AfterFault == legacy.log # <<>> /\ Last(legacy.log).fault = "io"

\* C25 (fails on the code): in the non-threaded variant, the call that follows
\* an operation's transport I/O fault finds the object not connected:
\* is_connected() returns False and an operation's check runs try_connect
C25_FaultThenReconnect ==
    [][C25_AfterFault /\ Len(legacy'.log) = Len(legacy.log) + 1 =>
          LET call == Last(legacy'.log) IN
          IF call.name = "is_connected"
          THEN call.outcome = "returned" /\ call.value = PyFalse
          ELSE call.connTried]_vars

====
